---- MODULE Spec2Model ----
(***************************************************************************)
(* Jack: an aggregatable lottery from a simulation-extractable KZG vector  *)
(* commitment (b-wagn/jackpot).                                            *)
(*                                                                         *)
(* The pairing groups are modelled "in the exponent": G1, G2 and GT are    *)
(* cyclic groups of prime order FieldModulus, an element is represented by *)
(* its discrete logarithm to a fixed base, the group law is addition       *)
(* modulo FieldModulus and the pairing is multiplication of the two        *)
(* logarithms.  The scalar field of Bls12_381 is scaled down to the prime  *)
(* field with 17 elements (two-adicity 4), so that radix-2 domains of size *)
(* 4, 8 and 16 exist.  SHA-256 is scaled down to a 16-bit rolling hash     *)
(* that depends on every input byte and on their order.                    *)
(***************************************************************************)
EXTENDS Integers, Sequences, FiniteSets, TLC

VARIABLES
    ck,      \* vector-commitment level: Option<CommitmentKey>
    vcs,     \* vector-commitment level: the (m, com, st) triples produced by commit
    vres,    \* vector-commitment level: the last call and what it returned
    par,     \* lottery level: Option<Parameters>
    users,   \* lottery level: the (pk, sk) pairs produced by gen
    lres     \* lottery level: the last call, or the running lottery, and what was returned

vars == <<ck, vcs, vres, par, users, lres>>

----------------------------------------------------------------------------
(* Option / result values *)

None == [tag |-> "None"]
Some(v) == [tag |-> "Some", val |-> v]
Ret(v) == [tag |-> "Ret", val |-> v]
Panic == [tag |-> "panic"]

\* 0-based indexing of a sequence, as in the source; an index that is not
\* InBounds panics
At(s, i) == s[i + 1]
InBounds(s, i) == i < Len(s)
Unset == [tag |-> "unset"]

----------------------------------------------------------------------------
(* Scalar field F and the groups G1, G2, GT *)

FieldModulus == 17
MODULUS_BIT_SIZE == 5
TWO_ADICITY == 4
TWO_ADIC_ROOT_OF_UNITY == 3

F == 0..(FieldModulus - 1)

FAdd(a, b) == (a + b) % FieldModulus
FSub(a, b) == (a + FieldModulus - b) % FieldModulus
FNeg(a) == (FieldModulus - a) % FieldModulus
FMul(a, b) == (a * b) % FieldModulus

RECURSIVE FPow(_, _)
FPow(a, n) == IF n = 0 THEN 1 ELSE FMul(a, FPow(a, n - 1))

\* the inverse of a non-zero element; zero stays zero (ark_ff::batch_inversion)
FInv(a) == IF a = 0 THEN 0 ELSE CHOOSE b \in 1..(FieldModulus - 1) : FMul(a, b) = 1

batch_inversion(s) == [j \in 1..Len(s) |-> FInv(s[j])]

RECURSIVE FSumUpTo(_, _)
FSumUpTo(s, n) == IF n = 0 THEN 0 ELSE FAdd(FSumUpTo(s, n - 1), s[n])

FSum(s) == FSumUpTo(s, Len(s))

\* group laws (additive notation, elements as discrete logarithms)
G1Add(a, b) == FAdd(a, b)
G1Sub(a, b) == FSub(a, b)
G1Mul(a, s) == FMul(a, s)
G2Sub(a, b) == FSub(a, b)
G2Mul(a, s) == FMul(a, s)
Pairing(a, b) == FMul(a, b)

\* <E::G1 as VariableBaseMSM>::msm: Err unless the two slices have one length
MsmOk(bases, scalars) == Len(bases) = Len(scalars)
Msm(bases, scalars) == FSum([j \in 1..Len(bases) |-> G1Mul(bases[j], scalars[j])])

----------------------------------------------------------------------------
(* Radix2EvaluationDomain *)

RECURSIVE NextPowerOfTwo(_, _)
NextPowerOfTwo(n, c) == IF c >= n THEN c ELSE NextPowerOfTwo(n, 2 * c)

RECURSIVE Log2(_)
Log2(n) == IF n <= 1 THEN 0 ELSE 1 + Log2(n \div 2)

\* a domain of exactly num_coeffs elements, not rounded up to a power of two
DomainNew_unrounded(num_coeffs) ==
    Some([size |-> num_coeffs,
          group_gen |-> FPow(TWO_ADIC_ROOT_OF_UNITY, 2 ^ (TWO_ADICITY - Log2(num_coeffs)))])

DomainNew(num_coeffs) ==
    LET size == NextPowerOfTwo(num_coeffs, 1)
        log_size_of_group == Log2(size)
    IN  IF log_size_of_group > TWO_ADICITY
        THEN None
        ELSE Some([size |-> size,
                   group_gen |-> FPow(TWO_ADIC_ROOT_OF_UNITY,
                                      2 ^ (TWO_ADICITY - log_size_of_group))])

Element(domain, i) == FPow(domain.group_gen, i)

EvaluateVanishing(domain, z) == FSub(FPow(z, domain.size), 1)

SizeAsFieldElement(domain) == domain.size % FieldModulus

\* the Lagrange coefficients without the factor 1/N
EvaluateAllLagrangeCoefficients_unscaled(domain, tau) ==
    LET z_h_at_tau == EvaluateVanishing(domain, tau)
    IN  IF z_h_at_tau = 0
        THEN [j \in 1..domain.size |-> IF Element(domain, j - 1) = tau THEN 1 ELSE 0]
        ELSE [j \in 1..domain.size |->
                FMul(FMul(z_h_at_tau, Element(domain, j - 1)),
                     FInv(FSub(tau, Element(domain, j - 1))))]

\* domain.evaluate_all_lagrange_coefficients(tau)
EvaluateAllLagrangeCoefficients(domain, tau) ==
    LET z_h_at_tau == EvaluateVanishing(domain, tau)
    IN  IF z_h_at_tau = 0
        THEN [j \in 1..domain.size |-> IF Element(domain, j - 1) = tau THEN 1 ELSE 0]
        ELSE [j \in 1..domain.size |->
                FMul(FMul(z_h_at_tau, Element(domain, j - 1)),
                     FInv(FMul(SizeAsFieldElement(domain),
                               FSub(tau, Element(domain, j - 1)))))]

----------------------------------------------------------------------------
(* Serialization and hashing *)

SerG1(pt) == <<pt>>
SerF(x) == <<x>>
SerOpening(tau) == SerF(tau.hat_y) \o SerG1(tau.v)
SerCommitment(com) == SerG1(com.com_kzg) \o SerF(com.y0) \o SerOpening(com.tau0)

U64LeBytes(n) == <<n % 256, (n \div 256) % 256, 0, 0, 0, 0, 0, 0>>
U32BeBytes(n) == <<(n \div 16777216) % 256, (n \div 65536) % 256, (n \div 256) % 256, n % 256>>

U32LeBytes(n) == <<n % 256, (n \div 256) % 256, (n \div 65536) % 256, (n \div 16777216) % 256>>

\* a Vec<G1Affine> or Vec<G2Affine>: the u64 length, then the elements
SerVec(v) == U64LeBytes(Len(v)) \o [j \in 1..Len(v) |-> SerG1(v[j])[1]]

\* the evaluation domain: size, log_size_of_group, size_as_field_element,
\* size_inv, group_gen, group_gen_inv, offset, offset_inv, offset_pow_size
SerDomain(domain) ==
    U64LeBytes(domain.size) \o U32LeBytes(Log2(domain.size))
      \o SerF(SizeAsFieldElement(domain)) \o SerF(FInv(SizeAsFieldElement(domain)))
      \o SerF(domain.group_gen) \o SerF(FInv(domain.group_gen))
      \o SerF(1) \o SerF(1) \o SerF(1)

\* the key's bytes with r written before g2
CommitmentKey_serialize_r_first(key) ==
    U64LeBytes(key.message_length) \o SerDomain(key.domain)
      \o SerVec(key.u) \o SerVec(key.hat_u) \o SerVec(key.lagranges)
      \o SerG1(key.r) \o SerG1(key.g2)
      \o SerVec(key.d) \o SerVec(key.y) \o SerVec(key.hat_y)

\* #[derive(CanonicalSerialize)]: the fields in the order of their declaration
CommitmentKey_serialize_compressed(key) ==
    U64LeBytes(key.message_length) \o SerDomain(key.domain)
      \o SerVec(key.u) \o SerVec(key.hat_u) \o SerVec(key.lagranges)
      \o SerG1(key.g2) \o SerG1(key.r)
      \o SerVec(key.d) \o SerVec(key.y) \o SerVec(key.hat_y)

\* reading at position pos (1-based) of the bytes b; ok is FALSE where the
\* reader would return an error
ReadU64(b, pos) ==
    IF pos + 7 > Len(b) THEN [ok |-> FALSE]
    ELSE IF \E j \in 2..7 : b[pos + j] # 0 THEN [ok |-> FALSE]
    ELSE [ok |-> TRUE, val |-> b[pos] + 256 * b[pos + 1], next |-> pos + 8]

ReadU32(b, pos) ==
    IF pos + 3 > Len(b) THEN [ok |-> FALSE]
    ELSE IF b[pos + 2] # 0 \/ b[pos + 3] # 0 THEN [ok |-> FALSE]
    ELSE [ok |-> TRUE, val |-> b[pos] + 256 * b[pos + 1], next |-> pos + 4]

\* a field element or a compressed point: one byte below the modulus
ReadElem(b, pos) ==
    IF pos > Len(b) THEN [ok |-> FALSE]
    ELSE IF b[pos] >= FieldModulus THEN [ok |-> FALSE]
    ELSE [ok |-> TRUE, val |-> b[pos], next |-> pos + 1]

ReadVec(b, pos) ==
    LET n == ReadU64(b, pos) IN
    IF ~n.ok THEN [ok |-> FALSE]
    ELSE IF n.next + n.val - 1 > Len(b) THEN [ok |-> FALSE]
    ELSE IF \E j \in 0..(n.val - 1) : b[n.next + j] >= FieldModulus THEN [ok |-> FALSE]
    ELSE [ok |-> TRUE, val |-> [j \in 1..n.val |-> b[n.next + j - 1]],
          next |-> n.next + n.val]

ReadDomain(b, pos) ==
    LET size == ReadU64(b, pos) IN
    IF ~size.ok THEN [ok |-> FALSE]
    ELSE
    LET lg == ReadU32(b, size.next) IN
    IF ~lg.ok THEN [ok |-> FALSE]
    ELSE IF lg.next + 6 > Len(b) THEN [ok |-> FALSE]
    ELSE IF \E j \in 0..6 : b[lg.next + j] >= FieldModulus THEN [ok |-> FALSE]
    ELSE [ok |-> TRUE, val |-> [size |-> size.val, group_gen |-> b[lg.next + 2]],
          next |-> lg.next + 7]

\* #[derive(CanonicalDeserialize)]: the fields read back in the same order
CommitmentKey_deserialize_compressed(b) ==
    LET message_length == ReadU64(b, 1) IN
    IF ~message_length.ok THEN None ELSE
    LET domain == ReadDomain(b, message_length.next) IN
    IF ~domain.ok THEN None ELSE
    LET u == ReadVec(b, domain.next) IN
    IF ~u.ok THEN None ELSE
    LET hat_u == ReadVec(b, u.next) IN
    IF ~hat_u.ok THEN None ELSE
    LET lagranges == ReadVec(b, hat_u.next) IN
    IF ~lagranges.ok THEN None ELSE
    LET g2 == ReadElem(b, lagranges.next) IN
    IF ~g2.ok THEN None ELSE
    LET r == ReadElem(b, g2.next) IN
    IF ~r.ok THEN None ELSE
    LET d == ReadVec(b, r.next) IN
    IF ~d.ok THEN None ELSE
    LET y == ReadVec(b, d.next) IN
    IF ~y.ok THEN None ELSE
    LET hat_y == ReadVec(b, y.next) IN
    IF ~hat_y.ok THEN None ELSE
    Some([message_length |-> message_length.val,
          domain |-> domain.val,
          u |-> u.val,
          hat_u |-> hat_u.val,
          lagranges |-> lagranges.val,
          g2 |-> g2.val,
          r |-> r.val,
          d |-> d.val,
          y |-> y.val,
          hat_y |-> hat_y.val])

\* the domain-separation prefixes, as byte strings
PrefixSimExt == <<75, 90, 71>>
PrefixAgg == <<75, 90, 65>>
PrefixChall == <<67, 104, 97>>

HashStateSize == 65536
HashMultiplier == 5

RECURSIVE Sha256Absorb(_, _, _)
Sha256Absorb(st, bytes, n) ==
    IF n = 0 THEN st
    ELSE (Sha256Absorb(st, bytes, n - 1) * HashMultiplier + bytes[n] + 1) % HashStateSize

\* the digest of a byte string; DigestByte reads one of its bytes
Sha256(bytes) == Sha256Absorb(0, bytes, Len(bytes))
DigestByte(digest, j) == ((digest + j) * (2 * j + 1)) % 256

\* F::from_random_bytes of a whole digest: the little-endian integer with the bits
\* above the modulus' bit size masked away, None when it is not below the modulus
FromRandomBytes(leInt) ==
    LET v == leInt % (2 ^ MODULUS_BIT_SIZE)
    IN  IF v < FieldModulus THEN Some(v) ELSE None

----------------------------------------------------------------------------
(* kzg_utils.rs *)

\* the rejection-sampling loop of get_z0, entered with the counter value i
RECURSIVE get_z0_loop(_, _)
get_z0_loop(com_ser, i) ==
    LET i1 == i + 1
        digest == Sha256(PrefixSimExt \o com_ser \o U64LeBytes(i1))
        res == FromRandomBytes(DigestByte(digest, 0))
    IN  IF res = None THEN get_z0_loop(com_ser, i1) ELSE res.val

get_z0(com_kzg) == get_z0_loop(SerG1(com_kzg), 0)

RECURSIVE ConcatSer(_, _, _)
ConcatSer(mis_ser, coms_ser, n) ==
    IF n = 0 THEN <<>>
    ELSE ConcatSer(mis_ser, coms_ser, n - 1) \o mis_ser[n] \o coms_ser[n]

RECURSIVE get_chi_loop(_, _, _, _)
get_chi_loop(i, mis_ser, coms_ser, cnt) ==
    LET cnt1 == cnt + 1
        digest == Sha256(PrefixAgg \o U64LeBytes(cnt1) \o U32BeBytes(i)
                         \o ConcatSer(mis_ser, coms_ser, Len(mis_ser)))
        res == FromRandomBytes(DigestByte(digest, 0))
    IN  IF res = None THEN get_chi_loop(i, mis_ser, coms_ser, cnt1) ELSE res.val

\* get_chi indexes coms[j] for every j < mis.len()
get_chi_in_bounds(mis, coms) == Len(coms) >= Len(mis)

get_chi(i, mis, coms) ==
    get_chi_loop(i,
                 [j \in 1..Len(mis) |-> SerF(mis[j])],
                 [j \in 1..Len(mis) |-> SerCommitment(coms[j])],
                 0)

\* the check against r itself, the point z left out
plain_kzg_verify_at_zero(key, com_kzg, z, y, tau) ==
    LET lhs_left == G1Sub(G1Sub(com_kzg, G1Mul(At(key.u, 0), y)),
                          G1Mul(At(key.hat_u, 0), tau.hat_y))
        lhs == Pairing(lhs_left, key.g2)
        rhs == Pairing(tau.v, key.r)
    IN  lhs = rhs

plain_kzg_verify(key, com_kzg, z, y, tau) ==
    LET lhs_left == G1Sub(G1Sub(com_kzg, G1Mul(At(key.u, 0), y)),
                          G1Mul(At(key.hat_u, 0), tau.hat_y))
        lhs == Pairing(lhs_left, key.g2)
        rhs_right == G2Sub(key.r, G2Mul(key.g2, z))
        rhs == Pairing(tau.v, rhs_right)
    IN  lhs = rhs

\* ck.d[i] is an index into a vector of message_length elements
plain_kzg_verify_inside_in_bounds(key, i) == i < Len(key.d)

\* the check with the value y left out of the left-hand side
plain_kzg_verify_inside_value_blind(key, i, com_kzg, y, tau) ==
    LET lhs_left == G1Sub(com_kzg, G1Mul(At(key.hat_u, 0), tau.hat_y))
        lhs == Pairing(lhs_left, key.g2)
        rhs == Pairing(tau.v, At(key.d, i))
    IN  lhs = rhs

plain_kzg_verify_inside(key, i, com_kzg, y, tau) ==
    LET lhs_left == G1Sub(G1Sub(com_kzg, G1Mul(At(key.u, 0), y)),
                          G1Mul(At(key.hat_u, 0), tau.hat_y))
        lhs == Pairing(lhs_left, key.g2)
        rhs == Pairing(tau.v, At(key.d, i))
    IN  lhs = rhs

plain_kzg_com_ok(key, evals) == MsmOk(key.lagranges, evals)
plain_kzg_com(key, evals) == Msm(key.lagranges, evals)

\* a search that finds nothing
find_in_domain_nowhere(domain, z) == None

find_in_domain(domain, z) ==
    IF EvaluateVanishing(domain, z) = 0
    THEN LET hits == {i \in 0..(domain.size - 1) : z = Element(domain, i)}
         IN  IF hits = {} THEN None
             ELSE Some(CHOOSE i \in hits : \A j \in hits : j <= i)
    ELSE None

\* returns witn_evals with the domain.size() evaluations of psi pushed onto it
\* the quotient evaluations with the sign of the i-th one's terms not flipped
witness_evals_inside_unnegated(domain, evals, i, witn_evals) ==
    LET n == domain.size
        fxi == At(evals, i)
        xi == Element(domain, i)
        nums == [j \in 1..n |-> FSub(evals[j], fxi)]
        denoms == [j \in 1..n |-> IF j - 1 = i THEN 1 ELSE FInv(FSub(Element(domain, j - 1), xi))]
        ith == FSum([j \in 1..n |->
                  IF j - 1 = i THEN 0
                  ELSE FMul(FMul(nums[j], denoms[j]), Element(domain, (((j - 1) - i) + n) % n))])
    IN  witn_evals \o [j \in 1..n |-> IF j - 1 = i THEN ith ELSE FMul(nums[j], denoms[j])]

\* the quotient evaluations with the i-th one left at zero
witness_evals_inside_no_ith(domain, evals, i, witn_evals) ==
    LET n == domain.size
        fxi == At(evals, i)
        xi == Element(domain, i)
    IN  witn_evals \o [j \in 1..n |->
            IF j - 1 = i THEN 0
            ELSE FMul(FSub(evals[j], fxi), FInv(FSub(Element(domain, j - 1), xi)))]

\* the quotient evaluations alone, the buffer dropped
witness_evals_inside_fresh(domain, evals, i, witn_evals) ==
    LET n == domain.size
        fxi == At(evals, i)
        nums == [j \in 1..n |-> FSub(evals[j], fxi)]
        denoms == batch_inversion([j \in 1..n |->
                    IF j - 1 = i THEN 1 ELSE FSub(Element(domain, j - 1), Element(domain, i))])
        ith == FSum([j \in 1..n |->
                    IF j - 1 = i THEN 0
                    ELSE FMul(FMul(nums[j], FNeg(denoms[j])),
                              Element(domain, (((j - 1) - i) + n) % n))])
    IN  [j \in 1..n |-> IF j - 1 = i THEN ith ELSE FMul(nums[j], denoms[j])]

witness_evals_inside(domain, evals, i, witn_evals) ==
    LET n == domain.size
        fxi == At(evals, i)
        xi == Element(domain, i)
        nums == [j \in 1..n |-> FSub(evals[j], fxi)]
        denoms == batch_inversion([j \in 1..n |->
                    IF j - 1 = i THEN 1 ELSE FSub(Element(domain, j - 1), xi)])
        terms == [j \in 1..n |->
                    IF j - 1 = i THEN 0
                    ELSE FMul(FMul(nums[j], FNeg(denoms[j])),
                              Element(domain, (((j - 1) - i) + n) % n))]
        ith == FSum(terms)
    IN  witn_evals \o [j \in 1..n |-> IF j - 1 = i THEN ith ELSE FMul(nums[j], denoms[j])]

\* the inverses of z - x_j in place of those of x_j - z
inv_diffs_negated(domain, z) ==
    batch_inversion([j \in 1..domain.size |-> FSub(z, Element(domain, j - 1))])

inv_diffs(domain, z) ==
    batch_inversion([j \in 1..domain.size |-> FSub(Element(domain, j - 1), z)])

\* the quotient evaluations with the value f(z) not subtracted
witness_evals_outside_no_fz(domain, evals, fz, invd, witn_evals) ==
    witn_evals \o [j \in 1..domain.size |-> FMul(evals[j], invd[j])]

witness_evals_outside(domain, evals, fz, invd, witn_evals) ==
    witn_evals \o [j \in 1..domain.size |-> FMul(FSub(evals[j], fz), invd[j])]

\* the barycentric sum without the factor (z^N - 1) / N
evaluate_outside_unscaled(domain, evals, z, invd) ==
    FSum([j \in 1..domain.size |->
            FMul(evals[j], FMul(FNeg(Element(domain, j - 1)), invd[j]))])

evaluate_outside(domain, evals, z, invd) ==
    LET nom == EvaluateVanishing(domain, z)
        factor == FMul(nom, FInv(SizeAsFieldElement(domain)))
        terms == [j \in 1..domain.size |->
                    FMul(evals[j], FMul(FNeg(Element(domain, j - 1)), invd[j]))]
    IN  FMul(factor, FSum(terms))

----------------------------------------------------------------------------
(* kzg.rs: the vector commitment VcKZG *)

\* the rng of setup: the four values it samples, in order
\* kzg_fk_open.rs: y = DFT_{2N}(hat_s) in the exponent, for
\* hat_s = [basis[N-1], ..., basis[0], N neutral elements]
precompute_y(basis, domain) ==
    LET n == domain.size
        dom2 == DomainNew(2 * n).val
        hat_s == [j \in 1..(2 * n) |-> IF j <= n THEN basis[n + 1 - j] ELSE 0]
    IN  [k \in 1..(2 * n) |->
            FSum([j \in 1..(2 * n) |->
                    G1Mul(hat_s[j], Element(dom2, ((j - 1) * (k - 1)) % (2 * n)))])]

VcKZG_setup(rng, message_length) ==
    IF message_length < 1 THEN None
    ELSE
    LET dom == DomainNew(message_length + 2) IN
    IF dom = None THEN None
    ELSE
    LET domain == dom.val
        g1 == rng.g1
        g2 == rng.g2
    IN
    IF g1 = 0 \/ g2 = 0 THEN None
    ELSE
    LET h == rng.h
        alpha == rng.alpha
        deg == domain.size - 1
        u == [j \in 1..(deg + 1) |-> G1Mul(g1, FPow(alpha, j - 1))]
        hat_u == [j \in 1..(deg + 1) |-> G1Mul(h, FPow(alpha, j - 1))]
        lf == EvaluateAllLagrangeCoefficients(domain, alpha)
        lagranges == [j \in 1..(deg + 1) |-> G1Mul(At(u, 0), lf[j])]
                     \o [j \in 1..(deg + 1) |-> G1Mul(At(hat_u, 0), lf[j])]
        r == G2Mul(g2, alpha)
        d == [j \in 1..message_length |-> G2Mul(g2, FSub(alpha, Element(domain, j - 1)))]
    IN  Some([message_length |-> message_length,
              domain |-> domain,
              u |-> u,
              hat_u |-> hat_u,
              lagranges |-> lagranges,
              g2 |-> g2,
              r |-> r,
              d |-> d,
              y |-> precompute_y(u, domain),
              hat_y |-> precompute_y(hat_u, domain)])

\* the rng of commit: the field elements it hands out, in order
VcKZG_commit(rng, key, m) ==
    LET dsize == key.domain.size
        nrand == IF Len(m) < 2 * dsize THEN 2 * dsize - Len(m) ELSE 0
        evals == m \o [j \in 1..nrand |-> rng[j]]
        hat_evals == SubSeq(evals, dsize + 1, 2 * dsize)
    IN
    IF ~plain_kzg_com_ok(key, evals) THEN Panic
    ELSE
    LET com_kzg == plain_kzg_com(key, evals)
        z0 == get_z0(com_kzg)
    IN
    IF find_in_domain(key.domain, z0) # None THEN Panic
    ELSE
    LET invd == inv_diffs(key.domain, z0)
        y0 == evaluate_outside(key.domain, evals, z0, invd)
        witn1 == witness_evals_outside(key.domain, evals, y0, invd, <<>>)
        hat_y0 == evaluate_outside(key.domain, hat_evals, z0, invd)
        witn_evals == witness_evals_outside(key.domain, hat_evals, hat_y0, invd, witn1)
        v == plain_kzg_com(key, witn_evals)
        tau0 == [hat_y |-> hat_y0, v |-> v]
        state == [evals |-> evals, precomputed_v |-> None]
        com == [com_kzg |-> com_kzg, y0 |-> y0, tau0 |-> tau0]
    IN  Ret([com |-> com, state |-> state])

VcKZG_verify_commitment(key, com) ==
    LET z0 == get_z0(com.com_kzg)
    IN  plain_kzg_verify(key, com.com_kzg, z0, com.y0, com.tau0)

\* opening that takes the size of the domain for the length of the message
VcKZG_open_domain_bound(key, st, i) ==
    IF i >= key.domain.size THEN None
    ELSE
    LET deg == key.domain.size
        w1 == witness_evals_inside(key.domain, st.evals, i, <<>>)
        w2 == witness_evals_inside(key.domain, SubSeq(st.evals, deg + 1, 2 * deg), i, w1)
    IN  Some([hat_y |-> At(st.evals, i + deg), v |-> plain_kzg_com(key, w2)])

VcKZG_open(key, st, i) ==
    IF i >= key.message_length THEN None
    ELSE IF st.precomputed_v # None /\ ~InBounds(st.precomputed_v.val, i) THEN Panic
    ELSE IF ~InBounds(st.evals, i + key.domain.size) THEN Panic
    ELSE
    LET deg == key.domain.size
        w1 == witness_evals_inside(key.domain, st.evals, i, <<>>)
        w2 == witness_evals_inside(key.domain, SubSeq(st.evals, deg + 1, 2 * deg), i, w1)
    IN
    IF st.precomputed_v = None /\ ~plain_kzg_com_ok(key, w2) THEN Panic
    ELSE
    LET v == IF st.precomputed_v # None
             THEN At(st.precomputed_v.val, i)
             ELSE plain_kzg_com(key, w2)
        hat_y == At(st.evals, i + key.domain.size)
    IN  Some([hat_y |-> hat_y, v |-> v])

chi_powers_of(chi, le) == [j \in 1..le |-> FPow(chi, j - 1)]

\* aggregation that adds the openings up without the powers of chi
VcKZG_aggregate_unweighted(key, i, mis, coms, openings) ==
    IF Len(mis) < 1 THEN None
    ELSE Some([hat_y |-> FSum([j \in 1..Len(openings) |-> openings[j].hat_y]),
               v |-> FSum([j \in 1..Len(openings) |-> openings[j].v])])

VcKZG_aggregate(key, i, mis, coms, openings) ==
    IF Len(mis) < 1 THEN None
    ELSE IF ~get_chi_in_bounds(mis, coms) THEN Panic
    ELSE
    LET le == Len(mis)
        chi == get_chi(i, mis, coms)
        chi_powers == chi_powers_of(chi, le)
        vs == [j \in 1..Len(openings) |-> openings[j].v]
    IN
    IF ~MsmOk(vs, chi_powers) THEN Panic
    ELSE
    LET v == Msm(vs, chi_powers)
        hat_y == FSum([j \in 1..le |-> FMul(openings[j].hat_y, chi_powers[j])])
    IN  Some([hat_y |-> hat_y, v |-> v])

VcKZG_verify(key, i, mis, coms, opening) ==
    IF Len(mis) < 1 THEN Ret(FALSE)
    ELSE IF ~get_chi_in_bounds(mis, coms) THEN Panic
    ELSE
    LET le == Len(mis)
        chi == get_chi(i, mis, coms)
        chi_powers == chi_powers_of(chi, le)
        com_kzgs == [j \in 1..Len(coms) |-> coms[j].com_kzg]
    IN
    IF ~MsmOk(com_kzgs, chi_powers) THEN Panic
    ELSE
    LET com == Msm(com_kzgs, chi_powers)
        mi == FSum([j \in 1..le |-> FMul(mis[j], chi_powers[j])])
    IN  IF ~plain_kzg_verify_inside_in_bounds(key, i) THEN Panic
        ELSE Ret(plain_kzg_verify_inside(key, i, com, mi, opening))

----------------------------------------------------------------------------
(* kzg_fk_open.rs: all openings at once (Feist-Khovratovich) *)

\* domain.ifft: the coefficients of the polynomial with the given evaluations
Ifft(domain, evals) ==
    LET n == domain.size
        ninv == FInv(SizeAsFieldElement(domain))
    IN  [k \in 1..n |->
            FMul(ninv, FSum([j \in 1..n |->
                    FMul(evals[j], Element(domain, (n - (((j - 1) * (k - 1)) % n)) % n))]))]

\* f.evaluate_over_domain(domain): the values of the polynomial with the given
\* coefficients at the elements of the domain
evaluate_over_domain(domain, coeffs) ==
    LET n == domain.size
    IN  [j \in 1..n |->
            FSum([k \in 1..Len(coeffs) |->
                    FMul(coeffs[k], Element(domain, ((j - 1) * (k - 1)) % n))])]

\* f.evaluate(z)
poly_evaluate(coeffs, z) ==
    FSum([k \in 1..Len(coeffs) |-> FMul(coeffs[k], FPow(z, k - 1))])

\* &fshift / &div for div = X - z and fshift = coeffs - y: the quotient of the
\* long division, whose k-th coefficient is c[k+1] + c[k+2]*z + c[k+3]*z^2 + ...
\* (the constant term of the dividend reaches the remainder only)
witness_poly(coeffs, y, z) ==
    LET fshift == [k \in 1..Len(coeffs) |-> IF k = 1 THEN FSub(coeffs[k], y) ELSE coeffs[k]]
    IN  [k \in 1..(Len(fshift) - 1) |->
            FSum([j \in 1..(Len(fshift) - k) |-> FMul(fshift[k + j], FPow(z, j - 1))])]

\* the remainder of that division
witness_poly_remainder(coeffs, y, z) == FSub(poly_evaluate(coeffs, z), y)

\* the polynomial h in the exponent (Proposition 1): its m-th coefficient is
\* f[m+1]*basis[0] + ... + f[N-1]*basis[N-2-m]
base_poly(domain, basis, evals) ==
    LET n == domain.size
        f == Ifft(domain, evals)
    IN  [m \in 1..(n - 1) |->
            FSum([j \in 1..n |->
                    IF j > m THEN G1Mul(basis[j - m], f[j]) ELSE 0])]

\* the evaluations of h over the domain, in the exponent: the openings
precompute_openings_single(domain, basis, evals) ==
    LET h == base_poly(domain, basis, evals)
    IN  [i \in 1..domain.size |->
            FSum([m \in 1..Len(h) |-> G1Mul(h[m], FPow(Element(domain, i - 1), m - 1))])]

all_openings(key, st) ==
    LET n == key.domain.size
        a == precompute_openings_single(key.domain, key.u, SubSeq(st.evals, 1, n))
        b == precompute_openings_single(key.domain, key.hat_u, SubSeq(st.evals, n + 1, 2 * n))
    IN  [evals |-> st.evals,
         precomputed_v |-> Some([i \in 1..key.message_length |-> G1Add(a[i], b[i])])]

----------------------------------------------------------------------------
(* vcbased.rs: the lottery VCLotteryScheme<F, VC> (Jack) *)

U32_BITS == 32

\* k.leading_zeros() of a u32
leading_zeros(k) == IF k = 0 THEN U32_BITS ELSE U32_BITS - (Log2(k) + 1)

\* (1 << s) == k for a shift amount s < 32, without leaving 31-bit integers
ShlOneEquals(s, k) ==
    IF s = 0 THEN k = 1 ELSE k % 2 = 0 /\ k \div 2 = 2 ^ (s - 1)

\* the bytes of the digest that get_challenge keeps, as a little-endian integer
RECURSIVE FullBytesLe(_, _)
FullBytesLe(digest, n) ==
    IF n = 0 THEN 0
    ELSE FullBytesLe(digest, n - 1) + DigestByte(digest, n - 1) * (256 ^ (n - 1))

\* the digest that get_challenge draws its bits from
challenge_digest(pk, pid, i, lseed) ==
    Sha256(PrefixChall \o SerCommitment(pk.com) \o U32BeBytes(pid) \o U32BeBytes(i) \o lseed)

\* hashbytes with the trailing byte of the digest kept whole
hashbytes_unmasked(log_k, digest) ==
    LET num_fullbytes == log_k \div 8
    IN  FullBytesLe(digest, num_fullbytes)
          + DigestByte(digest, num_fullbytes) * (256 ^ num_fullbytes)

\* hashbytes, as a little-endian integer: num_fullbytes bytes of the digest and
\* the next byte under the mask
hashbytes(log_k, digest) ==
    LET num_fullbytes == log_k \div 8
        nextbyte == DigestByte(digest, num_fullbytes)
        expected == log_k % 8
        mask == (2 ^ expected) - 1
        last == nextbyte % (mask + 1)
    IN  FullBytesLe(digest, num_fullbytes) + last * (256 ^ num_fullbytes)

get_challenge(log_k, pk, pid, i, lseed) ==
    LET digest == challenge_digest(pk, pid, i, lseed)
    IN
    IF ~(log_k <= 32 * 8) THEN Panic
    ELSE
    LET res == FromRandomBytes(hashbytes(log_k, digest))
    IN  IF res = None THEN Panic ELSE Ret(res.val)

\* F::from(r) for the values r that rng.gen_range(0..k) handed out
get_random_field_vec(rs, k, n) == [j \in 1..n |-> rs[j] % FieldModulus]

\* overflow_checks: whether the build traps on integer overflow (debug) or wraps (release).
\* t stands for the u32 log_k; t = -1 is the wrapped value 2^32 - 1.
Jack_setup(rng, num_lotteries, k, overflow_checks) ==
    LET t == U32_BITS - leading_zeros(k) - 1
        overflowed == t < 0
    IN
    IF overflowed /\ overflow_checks THEN [out |-> Panic, overflowed |-> TRUE]
    ELSE
    LET shift == t % U32_BITS
        log_k_gt_256 == t < 0 \/ t > 256
    IN
    IF ~ShlOneEquals(shift, k) \/ log_k_gt_256
    THEN [out |-> None, overflowed |-> overflowed]
    ELSE
    LET key == VcKZG_setup(rng, num_lotteries)
    IN  [out |-> IF key = None THEN None
                 ELSE Some([ck |-> key.val,
                            num_lotteries |-> num_lotteries,
                            k |-> k,
                            log_k |-> t]),
         overflowed |-> overflowed]

\* rs: the values of rng.gen_range(0..k); rng: the field elements commit draws afterwards
Jack_gen(rs, rng, p) ==
    LET v == get_random_field_vec(rs, p.k, p.num_lotteries)
        c == VcKZG_commit(rng, p.ck, v)
    IN  IF c = Panic THEN Panic
        ELSE Ret([pk |-> [com |-> c.val.com],
                  sk |-> [v |-> v, state |-> c.val.state]])

Jack_verify_key(p, pk) == VcKZG_verify_commitment(p.ck, pk.com)

Jack_participate(p, i, lseed, pid, sk, pk) ==
    LET x == get_challenge(p.log_k, pk, pid, i, lseed)
    IN
    IF x = Panic THEN Panic
    ELSE IF i <= Len(sk.v)
         THEN IF ~InBounds(sk.v, i) THEN Panic
              ELSE Ret(At(sk.v, i) # x.val)
         ELSE Ret(FALSE)

\* a ticket handed out only to a party for which participate returns true
Jack_get_ticket_winners_only(p, i, lseed, pid, sk, pk) ==
    LET op_tau == VcKZG_open(p.ck, sk.state, i)
    IN  IF Jack_participate(p, i, lseed, pid, sk, pk) # Ret(TRUE) THEN None
        ELSE IF op_tau.tag = "Some" THEN Some([opening |-> op_tau.val]) ELSE op_tau

Jack_get_ticket(p, i, lseed, pid, sk, pk) ==
    LET op_tau == VcKZG_open(p.ck, sk.state, i)
    IN  IF op_tau.tag = "Some" THEN Some([opening |-> op_tau.val]) ELSE op_tau

\* the challenges of the parties, None when one of them panics
Challenges(p, i, lseed, pids, pks) ==
    LET xs == [j \in 1..Len(pids) |-> get_challenge(p.log_k, pks[j], pids[j], i, lseed)]
    IN  IF \E j \in 1..Len(pids) : xs[j] = Panic THEN None
        ELSE Some([j \in 1..Len(pids) |-> xs[j].val])

\* aggregation that compares the identifiers with the public keys only
Jack_aggregate_tickets_unchecked(p, i, lseed, pids, pks, tickets) ==
    IF Len(pids) # Len(pks) THEN None
    ELSE
    LET xs == [j \in 1..Len(pids) |-> get_challenge(p.log_k, pks[j], pids[j], i, lseed).val]
        coms == [j \in 1..Len(pids) |-> pks[j].com]
        openings == [j \in 1..Len(tickets) |-> tickets[j].opening]
        agg_op == VcKZG_aggregate(p.ck, i, xs, coms, openings)
    IN  IF agg_op.tag = "Some" THEN Some([opening |-> agg_op.val]) ELSE agg_op

Jack_aggregate(p, i, lseed, pids, pks, tickets) ==
    IF Len(pids) # Len(pks) \/ Len(pids) # Len(tickets) THEN None
    ELSE
    LET xs == Challenges(p, i, lseed, pids, pks)
        coms == [j \in 1..Len(pids) |-> pks[j].com]
        openings == [j \in 1..Len(pids) |-> tickets[j].opening]
    IN
    IF xs = None THEN Panic
    ELSE
    LET agg_op == VcKZG_aggregate(p.ck, i, xs.val, coms, openings)
    IN  IF agg_op.tag = "Some" THEN Some([opening |-> agg_op.val]) ELSE agg_op

\* preprocessing that also forgets the lottery outcomes v
Jack_fk_preprocess_forgetting_v(p, sk) ==
    [v |-> <<>>, state |-> all_openings(p.ck, sk.state)]

\* jack.rs
Jack_fk_preprocess(p, sk) == [v |-> sk.v, state |-> all_openings(p.ck, sk.state)]

\* kzg.rs / kzg_fk_open.rs: the preprocessing that JackPre::gen calls
precompute_openings(key, st) == all_openings(key, st)

\* key generation that leaves the state as Jack::gen returned it
JackPre_gen_unprocessed(rs, rng, p) == Jack_gen(rs, rng, p)

\* jack_pre.rs: the key pair of Jack::gen, its state preprocessed in place
\* (key ranges over the one pair that gen returned)
JackPre_gen(rs, rng, p) ==
    LET g == Jack_gen(rs, rng, p)
    IN  IF g = Panic THEN Panic
        ELSE CHOOSE r \in {Ret([pk |-> key.pk,
                                sk |-> [v |-> key.sk.v,
                                        state |-> precompute_openings(p.ck, key.sk.state)]])
                             : key \in {g.val}} : TRUE

\* verification that pairs the challenges with the commitments in reverse order
Jack_verify_reversed_coms(p, i, lseed, pids, pks, ticket) ==
    IF Len(pids) # Len(pks) THEN Ret(FALSE)
    ELSE
    LET xs == Challenges(p, i, lseed, pids, pks)
        coms == [j \in 1..Len(pids) |-> pks[Len(pids) + 1 - j].com]
    IN  IF xs = None THEN Panic
        ELSE VcKZG_verify(p.ck, i, xs.val, coms, ticket.opening)

Jack_verify(p, i, lseed, pids, pks, ticket) ==
    IF Len(pids) # Len(pks) THEN Ret(FALSE)
    ELSE
    LET xs == Challenges(p, i, lseed, pids, pks)
        coms == [j \in 1..Len(pids) |-> pks[j].com]
    IN  IF xs = None THEN Panic
        ELSE VcKZG_verify(p.ck, i, xs.val, coms, ticket.opening)

----------------------------------------------------------------------------
(* Bounds and sampled inputs *)

MaxLen == 2          \* message_length / num_lotteries are drawn from 0..MaxLen
MaxComs == 2         \* commitments kept at the vector-commitment level
MaxUsers == 2        \* key pairs kept at the lottery level
NumRngSeeds == 2     \* rng streams handed to commit
NumLotterySeeds == 2 \* lottery seeds
MaxPid == 1          \* participant identifiers are drawn from 0..MaxPid
MaxEntry == 1        \* gen_range(0..k) is sampled within 0..MaxEntry

\* what the rng of setup hands out: g1, g2, h, alpha
SetupRngs ==
    { [g1 |-> 1, g2 |-> 3, h |-> 2, alpha |-> 5],
      [g1 |-> 3, g2 |-> 1, h |-> 0, alpha |-> 13],
      [g1 |-> 0, g2 |-> 3, h |-> 2, alpha |-> 5],
      [g1 |-> 1, g2 |-> 0, h |-> 2, alpha |-> 5] }

\* the n-th field element of the rng stream with the given seed
RngField(seed, n) == ((seed + 2) * (n * n + 3) + n) % FieldModulus
RngStream(seed, len) == [n \in 1..len |-> RngField(seed, n)]

MsgVals == {0, 7}

\* the largest domain of a key, and the coefficients of its polynomials
MaxDomainSize == NextPowerOfTwo(MaxLen + 2, 1)
PolyCoeffs == {0, 1, 6}
Polynomials == [1..MaxDomainSize -> PolyCoeffs]

\* the domain of the tests of kzg_utils, and the buffers handed to the
\* functions that append to one
TestDomain == DomainNew(MaxDomainSize).val
Buffers == {<<>>, <<3, 0>>}
OutsideDomain == {z \in F : EvaluateVanishing(TestDomain, z) # 0}
Messages(l) == UNION {[1..n -> MsgVals] : n \in 0..l}

\* u32 values of k
KSamples == {0, 1, 2, 3, 6, 2147483647}

\* values of log_k: within a byte, at and around the byte boundaries, and the
\* largest whose k = 2^log_k the integers of the model hold
LogKSamples == {0, 1, 2, 3, 4, 7, 8, 9, 16, 23, U32_BITS - 2}

LotterySeeds == {<<s>> : s \in 0..(NumLotterySeeds - 1)}

Min(a, b) == IF a < b THEN a ELSE b

----------------------------------------------------------------------------
(* The vector commitment as a state machine *)

VcInit ==
    /\ ck = None
    /\ vcs = <<>>
    /\ vres = [tag |-> "init", panicked |-> FALSE]
    /\ par = None
    /\ users = <<>>
    /\ lres = [tag |-> "init", panicked |-> FALSE]

LotteryVars == <<par, users, lres>>
VcVars == <<ck, vcs, vres>>

VcSetup(l, rng) ==
    /\ ck = None
    /\ ~vres.panicked
    /\ LET r == VcKZG_setup(rng, l)
       IN  /\ ck' = r
           /\ vres' = [tag |-> "setup", message_length |-> l, rng |-> rng,
                       out |-> r, panicked |-> FALSE]
    /\ UNCHANGED <<vcs, LotteryVars>>

VcCommit(m, seed) ==
    /\ ck # None
    /\ ~vres.panicked
    /\ Len(vcs) < MaxComs
    /\ Len(m) <= ck.val.message_length
    /\ LET c == VcKZG_commit(RngStream(seed, 2 * ck.val.domain.size), ck.val, m)
       IN  /\ vres' = [tag |-> "commit", m |-> m, seed |-> seed, out |-> c,
                       panicked |-> c = Panic]
           /\ vcs' = IF c = Panic THEN vcs
                     ELSE Append(vcs, [m |-> m, com |-> c.val.com, st |-> c.val.state])
    /\ UNCHANGED <<ck, LotteryVars>>

\* kzg_vc_test_par_to_file: the key written to a file and read back
VcParToFile ==
    /\ ck # None
    /\ ~vres.panicked
    /\ LET bytes == CommitmentKey_serialize_compressed(ck.val)
       IN  vres' = [tag |-> "par_to_file", bytes |-> bytes,
                    out |-> CommitmentKey_deserialize_compressed(bytes),
                    panicked |-> FALSE]
    /\ UNCHANGED <<ck, vcs, LotteryVars>>

VcVerifyCommitment(j) ==
    /\ ck # None
    /\ ~vres.panicked
    /\ j \in 1..Len(vcs)
    /\ vres' = [tag |-> "verify_commitment", j |-> j,
                out |-> Ret(VcKZG_verify_commitment(ck.val, vcs[j].com)),
                panicked |-> FALSE]
    /\ UNCHANGED <<ck, vcs, LotteryVars>>

\* open at position i, starting a list of openings at that position. The calls
\* on one list read nothing of an earlier list, so every list is started from a
\* state in which none is being built.
VcOpen(j, i) ==
    /\ ck # None
    /\ ~vres.panicked
    /\ vres.tag \in {"setup", "commit", "verify_commitment"}
    /\ j \in 1..Len(vcs)
    /\ LET r == VcKZG_open(ck.val, vcs[j].st, i)
       IN  vres' = [tag |-> "open", i |-> i, js |-> <<j>>, ops |-> <<r>>,
                    panicked |-> r = Panic]
    /\ UNCHANGED <<ck, vcs, LotteryVars>>

\* one more opening at the same position, of another commitment
VcOpenNext(j) ==
    /\ ck # None
    /\ ~vres.panicked
    /\ vres.tag = "open"
    /\ Len(vres.js) < MaxComs
    /\ j \in 1..Len(vcs)
    /\ LET r == VcKZG_open(ck.val, vcs[j].st, vres.i)
       IN  vres' = [vres EXCEPT !.js = Append(@, j), !.ops = Append(@, r),
                                !.panicked = r = Panic]
    /\ UNCHANGED <<ck, vcs, LotteryVars>>

\* the value committed at position i: m[i] where m has one, the padding otherwise
CommittedAt(c, i) == At(c.st.evals, i)

VcAggregate ==
    /\ ck # None
    /\ ~vres.panicked
    /\ vres.tag = "open"
    /\ \A n \in 1..Len(vres.ops) : vres.ops[n].tag = "Some"
    /\ LET mis == [n \in 1..Len(vres.js) |-> CommittedAt(vcs[vres.js[n]], vres.i)]
           coms == [n \in 1..Len(vres.js) |-> vcs[vres.js[n]].com]
           openings == [n \in 1..Len(vres.ops) |-> vres.ops[n].val]
           r == VcKZG_aggregate(ck.val, vres.i, mis, coms, openings)
       IN  vres' = [tag |-> "aggregate", i |-> vres.i, js |-> vres.js, mis |-> mis,
                    out |-> r, panicked |-> r = Panic]
    /\ UNCHANGED <<ck, vcs, LotteryVars>>

\* verify an opening (of one commitment, or aggregated) against the committed
\* values, the first of them shifted by delta
VcVerify(delta) ==
    /\ ck # None
    /\ ~vres.panicked
    /\ \/ vres.tag = "open" /\ Len(vres.js) = 1 /\ vres.ops[1].tag = "Some"
       \/ vres.tag = "aggregate" /\ vres.out.tag = "Some"
    /\ LET opening == IF vres.tag = "open" THEN vres.ops[1].val ELSE vres.out.val
           mis == [n \in 1..Len(vres.js) |->
                     FAdd(CommittedAt(vcs[vres.js[n]], vres.i), IF n = 1 THEN delta ELSE 0)]
           coms == [n \in 1..Len(vres.js) |-> vcs[vres.js[n]].com]
           r == VcKZG_verify(ck.val, vres.i, mis, coms, opening)
       IN  vres' = [tag |-> "verify", via |-> vres.tag, i |-> vres.i, js |-> vres.js,
                    mis |-> mis, honest |-> delta = 0, opening |-> opening,
                    out |-> r, panicked |-> r = Panic]
    /\ UNCHANGED <<ck, vcs, LotteryVars>>

\* aggregate called on the first nm values, the first nc commitments and the
\* first no openings of the list being built: lists of any lengths
VcAggregateArgs(nm, nc, no) ==
    /\ ck # None
    /\ ~vres.panicked
    /\ vres.tag = "open"
    /\ \A n \in 1..Len(vres.ops) : vres.ops[n].tag = "Some"
    /\ nm <= Len(vres.js) /\ nc <= Len(vres.js) /\ no <= Len(vres.js)
    /\ LET mis == [n \in 1..nm |-> CommittedAt(vcs[vres.js[n]], vres.i)]
           coms == [n \in 1..nc |-> vcs[vres.js[n]].com]
           openings == [n \in 1..no |-> vres.ops[n].val]
           r == VcKZG_aggregate(ck.val, vres.i, mis, coms, openings)
       IN  vres' = [tag |-> "aggregate_args", i |-> vres.i, lens |-> <<nm, nc, no>>,
                    out |-> r, panicked |-> r = Panic]
    /\ UNCHANGED <<ck, vcs, LotteryVars>>

\* verify called on the first nm values and the first nc commitments of an
\* aggregated list, with the aggregated opening
VcVerifyArgs(nm, nc) ==
    /\ ck # None
    /\ ~vres.panicked
    /\ vres.tag = "aggregate" /\ vres.out.tag = "Some"
    /\ nm <= Len(vres.js) /\ nc <= Len(vres.js)
    /\ LET mis == [n \in 1..nm |-> CommittedAt(vcs[vres.js[n]], vres.i)]
           coms == [n \in 1..nc |-> vcs[vres.js[n]].com]
           r == VcKZG_verify(ck.val, vres.i, mis, coms, vres.out.val)
       IN  vres' = [tag |-> "verify_args", i |-> vres.i, lens |-> <<nm, nc>>,
                    out |-> r, panicked |-> r = Panic]
    /\ UNCHANGED <<ck, vcs, LotteryVars>>

\* verify at any position i, below message_length or not, of the commitment
\* just opened, its value at the opened position and its opening
VcVerifyAt(i) ==
    /\ ck # None
    /\ ~vres.panicked
    /\ vres.tag = "open" /\ Len(vres.js) = 1 /\ vres.ops[1].tag = "Some"
    /\ LET c == vcs[vres.js[1]]
           mis == <<CommittedAt(c, vres.i)>>
           coms == <<c.com>>
           r == VcKZG_verify(ck.val, i, mis, coms, vres.ops[1].val)
       IN  vres' = [tag |-> "verify_at", i |-> i, opened |-> vres.i, mis |-> mis,
                    coms |-> coms, out |-> r, panicked |-> r = Panic]
    /\ UNCHANGED <<ck, vcs, LotteryVars>>

\* the two plain KZG checks on the opening just computed, with the commitment,
\* the value and the two parts of the opening each shifted by a chosen amount
VcPlainVerify(dc, dy, dh, dv) ==
    /\ ck # None
    /\ ~vres.panicked
    /\ vres.tag = "open" /\ Len(vres.js) = 1 /\ vres.ops[1].tag = "Some"
    /\ LET key == ck.val
           c == vcs[vres.js[1]]
           com_kzg == G1Add(c.com.com_kzg, dc)
           y == FAdd(CommittedAt(c, vres.i), dy)
           tau == [hat_y |-> FAdd(vres.ops[1].val.hat_y, dh),
                   v |-> G1Add(vres.ops[1].val.v, dv)]
       IN  vres' = [tag |-> "plain_verify", i |-> vres.i,
                    honest |-> <<dc, dy, dh, dv>> = <<0, 0, 0, 0>>,
                    inside |-> plain_kzg_verify_inside(key, vres.i, com_kzg, y, tau),
                    at_element |-> plain_kzg_verify(key, com_kzg,
                                                    Element(key.domain, vres.i), y, tau),
                    panicked |-> FALSE]
    /\ UNCHANGED <<ck, vcs, LotteryVars>>

\* test_witness_evals_inside: the evaluations appended for position i against
\* those of the quotient obtained by long division
TestWitnessEvalsInside(f, i, buf) ==
    /\ ck = None
    /\ vres.tag = "init"
    /\ LET domain == TestDomain
           evals == evaluate_over_domain(domain, f)
           z == Element(domain, i)
       IN  vres' = [tag |-> "witness_evals_inside", f |-> f, i |-> i, buf |-> buf,
                    remainder |-> witness_poly_remainder(f, At(evals, i), z),
                    witn_evals_expected |->
                        evaluate_over_domain(domain, witness_poly(f, At(evals, i), z)),
                    witn_evals |-> witness_evals_inside(domain, evals, i, buf),
                    panicked |-> FALSE]
    /\ UNCHANGED <<ck, vcs, LotteryVars>>

\* test_witness_evals_outside and test_evaluate_outside: for a point z outside
\* the domain, the value computed from the evaluations against f(z), and the
\* evaluations appended against those of the quotient obtained by long division
TestWitnessEvalsOutside(f, z, buf) ==
    /\ ck = None
    /\ vres.tag = "init"
    /\ LET domain == TestDomain
           evals == evaluate_over_domain(domain, f)
           invd == inv_diffs(domain, z)
           fz == poly_evaluate(f, z)
       IN  vres' = [tag |-> "witness_evals_outside", f |-> f, z |-> z, buf |-> buf,
                    expected |-> fz,
                    obtained |-> evaluate_outside(domain, evals, z, invd),
                    remainder |-> witness_poly_remainder(f, fz, z),
                    witn_evals_expected |->
                        evaluate_over_domain(domain, witness_poly(f, fz, z)),
                    witn_evals |-> witness_evals_outside(domain, evals, fz, invd, buf),
                    panicked |-> FALSE]
    /\ UNCHANGED <<ck, vcs, LotteryVars>>

\* kzg_vc_test_par_well_formed: the commitment of a polynomial of degree N - 1
\* computed from its coefficients with u (hat_u) and from its evaluations with
\* the Lagrange half of the key
VcParWellFormed(f) ==
    /\ ck # None
    /\ ~vres.panicked
    /\ vres.tag = "setup"
    /\ LET key == ck.val
           n == key.domain.size
           coeffs == SubSeq(f, 1, n)
           evals == evaluate_over_domain(key.domain, coeffs)
       IN  vres' = [tag |-> "par_well_formed", coeffs |-> coeffs, evals |-> evals,
                    lhs |-> Msm(key.u, coeffs),
                    rhs |-> Msm(SubSeq(key.lagranges, 1, n), evals),
                    hat_lhs |-> Msm(key.hat_u, coeffs),
                    hat_rhs |-> Msm(SubSeq(key.lagranges, n + 1, 2 * n), evals),
                    panicked |-> FALSE]
    /\ UNCHANGED <<ck, vcs, LotteryVars>>

VcNext ==
    \/ \E l \in 0..MaxLen, rng \in SetupRngs : VcSetup(l, rng)
    \/ \E m \in Messages(MaxLen), seed \in 0..(NumRngSeeds - 1) : VcCommit(m, seed)
    \/ VcParToFile
    \/ \E f \in Polynomials : VcParWellFormed(f)
    \/ \E f \in Polynomials, i \in 0..(MaxDomainSize - 1), buf \in Buffers :
            TestWitnessEvalsInside(f, i, buf)
    \/ \E f \in Polynomials, z \in OutsideDomain, buf \in Buffers :
            TestWitnessEvalsOutside(f, z, buf)
    \/ \E j \in 1..MaxComs : VcVerifyCommitment(j)
    \/ \E j \in 1..MaxComs, i \in 0..(MaxLen + 1) : VcOpen(j, i)
    \/ \E j \in 1..MaxComs : VcOpenNext(j)
    \/ VcAggregate
    \/ \E delta \in {0, 1} : VcVerify(delta)
    \/ \E i \in 0..MaxDomainSize : VcVerifyAt(i)
    \/ \E dc \in {0, 1}, dy \in {0, 1}, dh \in {0, 1}, dv \in {0, 1} :
            VcPlainVerify(dc, dy, dh, dv)
    \/ \E nm \in 0..MaxComs, nc \in 0..MaxComs, no \in 0..MaxComs : VcAggregateArgs(nm, nc, no)
    \/ \E nm \in 0..MaxComs, nc \in 0..MaxComs : VcVerifyArgs(nm, nc)

SpecVC == VcInit /\ [][VcNext]_vars

----------------------------------------------------------------------------
(* The lottery as a state machine *)

Init == VcInit

\* No call reads what an earlier call returned (lres), only par and users. So every
\* call sequence is started once for each value of par and users: from the state
\* in which setup, gen or fk_preprocess produced that value.
Idle == lres.tag \in {"setup", "gen", "fk_preprocess"}

Setup(num_lotteries, k, rng, overflow_checks) ==
    /\ par = None
    /\ ~lres.panicked
    /\ LET r == Jack_setup(rng, num_lotteries, k, overflow_checks)
       IN  /\ par' = IF r.out = Panic THEN None ELSE r.out
           /\ lres' = [tag |-> "setup", num_lotteries |-> num_lotteries, k |-> k,
                       overflow_checks |-> overflow_checks, out |-> r.out,
                       overflowed |-> r.overflowed, panicked |-> r.out = Panic]
    /\ UNCHANGED <<users, VcVars>>

Gen(rs, seed) ==
    /\ par # None
    /\ ~lres.panicked
    /\ Idle
    /\ Len(users) < MaxUsers
    /\ rs \in [1..par.val.num_lotteries -> 0..Min(par.val.k - 1, MaxEntry)]
    /\ LET r == Jack_gen(rs, RngStream(seed, 2 * par.val.ck.domain.size), par.val)
       IN  /\ lres' = [tag |-> "gen", out |-> r, panicked |-> r = Panic]
           /\ users' = IF r = Panic THEN users ELSE Append(users, r.val)
    /\ UNCHANGED <<par, VcVars>>

\* key generation of JackPre
GenPre(rs, seed) ==
    /\ par # None
    /\ ~lres.panicked
    /\ Idle
    /\ Len(users) < MaxUsers
    /\ rs \in [1..par.val.num_lotteries -> 0..Min(par.val.k - 1, MaxEntry)]
    /\ LET r == JackPre_gen(rs, RngStream(seed, 2 * par.val.ck.domain.size), par.val)
       IN  /\ lres' = [tag |-> "gen_pre", rs |-> rs, seed |-> seed, out |-> r,
                       panicked |-> r = Panic]
           /\ users' = IF r = Panic THEN users ELSE Append(users, r.val)
    /\ UNCHANGED <<par, VcVars>>

VerifyKey(u) ==
    /\ par # None
    /\ ~lres.panicked
    /\ Idle
    /\ u \in 1..Len(users)
    /\ lres' = [tag |-> "verify_key", u |-> u,
                out |-> Ret(Jack_verify_key(par.val, users[u].pk)), panicked |-> FALSE]
    /\ UNCHANGED <<par, users, VcVars>>

FkPreprocess(u) ==
    /\ par # None
    /\ ~lres.panicked
    /\ Idle
    /\ u \in 1..Len(users)
    /\ users[u].sk.state.precomputed_v = None
    /\ users' = [n \in 1..Len(users) |->
                    IF n = u THEN [pk |-> users[n].pk,
                                   sk |-> Jack_fk_preprocess(par.val, users[n].sk)]
                    ELSE users[n]]
    /\ lres' = [tag |-> "fk_preprocess", u |-> u, panicked |-> FALSE]
    /\ UNCHANGED <<par, VcVars>>

\* user u, with identifier pid, participates in lottery i: the first party of a
\* lottery. The calls of one lottery read nothing of an earlier one, so every lottery
\* is explored from a state in which none is running.
Participate(u, pid, i, lseed) ==
    /\ par # None
    /\ ~lres.panicked
    /\ Idle
    /\ u \in 1..Len(users)
    /\ LET r == Jack_participate(par.val, i, lseed, pid, users[u].sk, users[u].pk)
       IN  lres' = [tag |-> "lottery", i |-> i, lseed |-> lseed, who |-> <<u>>,
                    pids |-> <<pid>>, wins |-> <<r>>, tickets |-> <<>>,
                    agg |-> Unset, ok |-> Unset, panicked |-> r = Panic]
    /\ UNCHANGED <<par, users, VcVars>>

\* another user participates in the running lottery
ParticipateNext(u, pid) ==
    /\ par # None
    /\ ~lres.panicked
    /\ lres.tag = "lottery"
    /\ lres.tickets = <<>>
    /\ Len(lres.who) < MaxUsers
    /\ u \in 1..Len(users)
    /\ \A n \in 1..Len(lres.who) : lres.who[n] # u
    /\ LET r == Jack_participate(par.val, lres.i, lres.lseed, pid, users[u].sk, users[u].pk)
       IN  lres' = [lres EXCEPT !.who = Append(@, u), !.pids = Append(@, pid),
                                !.wins = Append(@, r), !.panicked = r = Panic]
    /\ UNCHANGED <<par, users, VcVars>>

\* the next party of the running lottery asks for its ticket
GetTicket ==
    /\ par # None
    /\ ~lres.panicked
    /\ lres.tag = "lottery"
    /\ Len(lres.tickets) < Len(lres.who)
    /\ LET n == Len(lres.tickets) + 1
           r == Jack_get_ticket(par.val, lres.i, lres.lseed, lres.pids[n],
                                users[lres.who[n]].sk, users[lres.who[n]].pk)
       IN  lres' = [lres EXCEPT !.tickets = Append(@, r), !.panicked = r = Panic]
    /\ UNCHANGED <<par, users, VcVars>>

\* user u asks for its ticket of lottery i without having participated; get_ticket
\* reads neither the identifier nor the lottery seed
GetTicketAt(u, i) ==
    /\ par # None
    /\ ~lres.panicked
    /\ Idle
    /\ u \in 1..Len(users)
    /\ LET r == Jack_get_ticket(par.val, i, <<>>, 0, users[u].sk, users[u].pk)
       IN  lres' = [tag |-> "get_ticket", u |-> u, i |-> i, out |-> r,
                    panicked |-> r = Panic]
    /\ UNCHANGED <<par, users, VcVars>>

\* get_challenge for a key of gen and any log_k
Challenge(log_k, u, pid, i, lseed) ==
    /\ par # None
    /\ ~lres.panicked
    /\ Idle
    /\ u \in 1..Len(users)
    /\ LET r == get_challenge(log_k, users[u].pk, pid, i, lseed)
       IN  lres' = [tag |-> "challenge", log_k |-> log_k,
                    bits |-> hashbytes(log_k, challenge_digest(users[u].pk, pid, i, lseed)),
                    out |-> r, panicked |-> r = Panic]
    /\ UNCHANGED <<par, users, VcVars>>

PksOf(who) == [n \in 1..Len(who) |-> users[who[n]].pk]

Aggregate ==
    /\ par # None
    /\ ~lres.panicked
    /\ lres.tag = "lottery"
    /\ Len(lres.tickets) = Len(lres.who)
    /\ \A n \in 1..Len(lres.tickets) : lres.tickets[n].tag = "Some"
    /\ lres.agg = Unset
    /\ LET tickets == [n \in 1..Len(lres.tickets) |-> lres.tickets[n].val]
           r == Jack_aggregate(par.val, lres.i, lres.lseed, lres.pids,
                               PksOf(lres.who), tickets)
       IN  lres' = [lres EXCEPT !.agg = r, !.panicked = r = Panic]
    /\ UNCHANGED <<par, users, VcVars>>

Verify ==
    /\ par # None
    /\ ~lres.panicked
    /\ lres.tag = "lottery"
    /\ lres.agg.tag = "Some"
    /\ lres.ok = Unset
    /\ LET r == Jack_verify(par.val, lres.i, lres.lseed, lres.pids,
                            PksOf(lres.who), lres.agg.val)
       IN  lres' = [lres EXCEPT !.ok = r, !.panicked = r = Panic]
    /\ UNCHANGED <<par, users, VcVars>>

\* aggregate called on the first np identifiers, the first nk public keys and the
\* first nt tickets of the running lottery: lists of any lengths
AggregateArgs(np, nk, nt) ==
    /\ par # None
    /\ ~lres.panicked
    /\ lres.tag = "lottery"
    /\ lres.agg.tag = "Some" /\ lres.ok = Unset
    /\ np <= Len(lres.who) /\ nk <= Len(lres.who) /\ nt <= Len(lres.who)
    /\ LET r == Jack_aggregate(par.val, lres.i, lres.lseed, SubSeq(lres.pids, 1, np),
                               PksOf(SubSeq(lres.who, 1, nk)),
                               [n \in 1..nt |-> lres.tickets[n].val])
       IN  lres' = [tag |-> "aggregate_args", i |-> lres.i, lens |-> <<np, nk, nt>>,
                    out |-> r, panicked |-> r = Panic]
    /\ UNCHANGED <<par, users, VcVars>>

\* verify called on the first np identifiers and the first nk public keys of the
\* running lottery, with its aggregated ticket
VerifyArgs(np, nk) ==
    /\ par # None
    /\ ~lres.panicked
    /\ lres.tag = "lottery"
    /\ lres.agg.tag = "Some" /\ lres.ok = Unset
    /\ np <= Len(lres.who) /\ nk <= Len(lres.who)
    /\ LET r == Jack_verify(par.val, lres.i, lres.lseed, SubSeq(lres.pids, 1, np),
                            PksOf(SubSeq(lres.who, 1, nk)), lres.agg.val)
       IN  lres' = [tag |-> "verify_args", i |-> lres.i, lens |-> <<np, nk>>,
                    out |-> r, panicked |-> r = Panic]
    /\ UNCHANGED <<par, users, VcVars>>

\* the list s with its j-th and (j+1)-th entries exchanged
Swap(s, j) ==
    [n \in 1..Len(s) |-> IF n = j THEN s[j + 1] ELSE IF n = j + 1 THEN s[j] ELSE s[n]]

\* aggregate called on the lists of the running lottery with the j-th and
\* (j+1)-th entries of pids, pks and tickets exchanged
AggregateSwapped(j) ==
    /\ par # None
    /\ ~lres.panicked
    /\ lres.tag = "lottery"
    /\ lres.agg.tag = "Some" /\ lres.ok = Unset
    /\ j \in 1..(Len(lres.who) - 1)
    /\ LET who == Swap(lres.who, j)
           pids == Swap(lres.pids, j)
           tickets == Swap([n \in 1..Len(lres.tickets) |-> lres.tickets[n].val], j)
           r == Jack_aggregate(par.val, lres.i, lres.lseed, pids, PksOf(who), tickets)
       IN  lres' = [tag |-> "swapped", i |-> lres.i, lseed |-> lres.lseed, j |-> j,
                    who |-> who, pids |-> pids, agg0 |-> lres.agg, agg |-> r,
                    ok |-> Unset, panicked |-> r = Panic]
    /\ UNCHANGED <<par, users, VcVars>>

\* verify called on the exchanged lists with the ticket aggregated from them
VerifySwapped ==
    /\ par # None
    /\ ~lres.panicked
    /\ lres.tag = "swapped"
    /\ lres.agg.tag = "Some" /\ lres.ok = Unset
    /\ LET r == Jack_verify(par.val, lres.i, lres.lseed, lres.pids,
                            PksOf(lres.who), lres.agg.val)
       IN  lres' = [lres EXCEPT !.ok = r, !.panicked = r = Panic]
    /\ UNCHANGED <<par, users, VcVars>>

\* verify called on the ticket of the running lottery with the j-th and (j+1)-th
\* entries of pids and pks exchanged
VerifyReordered(j) ==
    /\ par # None
    /\ ~lres.panicked
    /\ lres.tag = "lottery"
    /\ lres.agg.tag = "Some" /\ lres.ok = Unset
    /\ j \in 1..(Len(lres.who) - 1)
    /\ LET who == Swap(lres.who, j)
           pids == Swap(lres.pids, j)
           r == Jack_verify(par.val, lres.i, lres.lseed, pids, PksOf(who), lres.agg.val)
       IN  lres' = [tag |-> "verify_reordered", i |-> lres.i, lseed |-> lres.lseed,
                    j |-> j, who |-> who, pids |-> pids, agg |-> lres.agg,
                    out |-> r, panicked |-> r = Panic]
    /\ UNCHANGED <<par, users, VcVars>>

Next ==
    \/ \E t \in 0..MaxLen, k \in KSamples, rng \in SetupRngs, oc \in BOOLEAN :
          Setup(t, k, rng, oc)
    \/ \E rs \in UNION {[1..n -> 0..MaxEntry] : n \in 1..MaxLen},
          seed \in 0..(NumRngSeeds - 1) : Gen(rs, seed)
    \/ \E rs \in UNION {[1..n -> 0..MaxEntry] : n \in 1..MaxLen},
          seed \in 0..(NumRngSeeds - 1) : GenPre(rs, seed)
    \/ \E u \in 1..MaxUsers : VerifyKey(u)
    \/ \E u \in 1..MaxUsers : FkPreprocess(u)
    \/ \E u \in 1..MaxUsers, pid \in 0..MaxPid, i \in 0..(MaxLen + 1), lseed \in LotterySeeds :
          Participate(u, pid, i, lseed)
    \/ \E u \in 1..MaxUsers, pid \in 0..MaxPid : ParticipateNext(u, pid)
    \/ \E log_k \in LogKSamples, u \in 1..MaxUsers, pid \in 0..MaxPid, i \in 0..(MaxLen + 1),
          lseed \in LotterySeeds : Challenge(log_k, u, pid, i, lseed)
    \/ GetTicket
    \/ \E u \in 1..MaxUsers, i \in 0..(MaxLen + 1) : GetTicketAt(u, i)
    \/ Aggregate
    \/ Verify
    \/ \E np \in 0..MaxUsers, nk \in 0..MaxUsers, nt \in 0..MaxUsers : AggregateArgs(np, nk, nt)
    \/ \E np \in 0..MaxUsers, nk \in 0..MaxUsers : VerifyArgs(np, nk)
    \/ \E j \in 1..(MaxUsers - 1) : AggregateSwapped(j)
    \/ VerifySwapped
    \/ \E j \in 1..(MaxUsers - 1) : VerifyReordered(j)

Spec == Init /\ [][Next]_vars

----------------------------------------------------------------------------
(* Properties of the vector commitment, checked under SpecVC *)

\* C1: every commitment that commit returns, for a key of setup and a message
\* of at most message_length entries, is accepted by verify_commitment.
C1_CommitVerifies ==
    vres.tag = "verify_commitment" => vres.out = Ret(TRUE)

\* a commitment to a message shorter than message_length has been accepted
C1_Witness ==
    /\ vres.tag = "verify_commitment"
    /\ Len(vcs[vres.j].m) < ck.val.message_length
    /\ vres.out = Ret(TRUE)

\* C2: for every position i < message_length, open returns Some(op), and verify
\* accepts op for the committed value at i and the commitment.
C2_OpenVerifies ==
    /\ (vres.tag = "open" /\ vres.i < ck.val.message_length)
         => \A n \in 1..Len(vres.ops) : vres.ops[n].tag = "Some"
    /\ (vres.tag = "verify" /\ vres.via = "open" /\ vres.honest)
         => vres.out = Ret(TRUE)

\* the last position of a message of full length has been opened and verified
C2_Witness ==
    /\ vres.tag = "verify" /\ vres.via = "open" /\ vres.honest
    /\ ck.val.message_length = MaxLen
    /\ Len(vcs[vres.js[1]].m) = ck.val.message_length
    /\ vres.i = ck.val.message_length - 1
    /\ vres.mis = <<At(vcs[vres.js[1]].m, vres.i)>>
    /\ vres.out = Ret(TRUE)

\* C3: aggregating the openings of L >= 1 commitments at one position
\* i < message_length, with the committed values and the commitments in the
\* same order, returns Some(op), and verify accepts op.
C3_AggregateVerifies ==
    /\ vres.tag = "aggregate" => vres.out.tag = "Some"
    /\ (vres.tag = "verify" /\ vres.via = "aggregate" /\ vres.honest)
         => vres.out = Ret(TRUE)

\* the openings of two different commitments have been aggregated and verified
C3_Witness ==
    /\ vres.tag = "verify" /\ vres.via = "aggregate" /\ vres.honest
    /\ Len(vres.js) = 2
    /\ vcs[vres.js[1]].com # vcs[vres.js[2]].com
    /\ vres.out = Ret(TRUE)

----------------------------------------------------------------------------
(* Properties of the lottery, checked under Spec *)

\* the challenge of the n-th party of the running lottery
ChallengeOf(n) ==
    get_challenge(par.val.log_k, users[lres.who[n]].pk, lres.pids[n], lres.i, lres.lseed)

\* the entry of the n-th party's secret vector for the running lottery
EntryOf(n) == At(users[lres.who[n]].sk.v, lres.i)

\* C4: for every lottery i < T, participate returns true exactly when sk.v[i]
\* equals the challenge derived from (pk, pid, i, lseed), false otherwise.
C4_WinsIffEntryIsChallenge ==
    (lres.tag = "lottery" /\ lres.i < par.val.num_lotteries)
      => \A n \in 1..Len(lres.wins) :
            lres.wins[n] = Ret(EntryOf(n) = ChallengeOf(n).val)

\* C5: with k = 1, participate returns true for every key pair of gen, every
\* lottery i < T, every pid and every lottery seed.
C5_AlwaysWinning ==
    (lres.tag = "lottery" /\ par.val.k = 1 /\ lres.i < par.val.num_lotteries)
      => \A n \in 1..Len(lres.wins) : lres.wins[n] = Ret(TRUE)

\* C6: in a lottery i < T in which participate returned true for every party,
\* every get_ticket returns Some, aggregate returns Some(ticket), and verify
\* accepts the ticket.
C6_WinnersTicketVerifies ==
    (/\ lres.tag = "lottery"
     /\ lres.i < par.val.num_lotteries
     /\ \A n \in 1..Len(lres.wins) : lres.wins[n] = Ret(TRUE))
      => /\ \A n \in 1..Len(lres.tickets) : lres.tickets[n].tag = "Some"
         /\ lres.agg # Unset => lres.agg.tag = "Some"
         /\ lres.ok # Unset => lres.ok = Ret(TRUE)

\* C7: for every lottery index i >= sk.v.len(), the length itself included,
\* participate returns false and does not panic.
C7_OutOfRangeLoses ==
    (lres.tag = "lottery" /\ lres.i >= par.val.num_lotteries)
      => \A n \in 1..Len(lres.wins) : lres.wins[n] = Ret(FALSE)

\* C8: verify_key accepts the public key of every key pair that gen returns
\* under parameters that setup returns.
C8_KeyVerifies ==
    lres.tag = "verify_key" => lres.out = Ret(TRUE)

\* the key of a user with two secret entries, under k = 2, has been accepted
C8_Witness ==
    /\ lres.tag = "verify_key"
    /\ par.val.k = 2
    /\ Len(users[lres.u].sk.v) = MaxLen
    /\ lres.out = Ret(TRUE)

\* C9: for every index i >= T (the message length of the key), get_ticket, and
\* the open it calls, return None without panicking, whether or not the state
\* holds precomputed openings.
C9_OutOfRangeNoTicket ==
    /\ (lres.tag = "get_ticket" /\ lres.i >= par.val.ck.message_length)
         => lres.out = None
    /\ (lres.tag = "lottery" /\ lres.i >= par.val.num_lotteries)
         => \A n \in 1..Len(lres.tickets) : lres.tickets[n] = None

\* a user whose state holds precomputed openings got no ticket for lottery T
C9_Witness ==
    /\ lres.tag = "get_ticket"
    /\ lres.i = par.val.num_lotteries
    /\ users[lres.u].sk.state.precomputed_v # None
    /\ lres.out = None

\* k is a power of two, k >= 1
IsPowerOfTwo(k) == \E e \in 0..(U32_BITS - 1) : ShlOneEquals(e, k)

\* C10: setup returns None, without panicking or overflowing, when T < 1 or k
\* is not a power of two (k = 0 included), and every Parameters value it
\* returns has k = 2^log_k and k >= 1.
C10_SetupRejectsInvalid ==
    lres.tag = "setup"
      => /\ (lres.num_lotteries < 1 \/ ~IsPowerOfTwo(lres.k))
              => (lres.out = None /\ ~lres.overflowed)
         /\ lres.out.tag = "Some"
              => (lres.out.val.k >= 1 /\ lres.out.val.k = 2 ^ lres.out.val.log_k)

----------------------------------------------------------------------------
(* Properties of calls on lists of any lengths *)

\* C11: the lottery's aggregate returns None whenever the identifiers, public
\* keys and tickets are not equally many or are all empty, and its verify returns
\* false whenever identifiers and public keys are not equally many or are both
\* empty; neither panics.
C11_LotteryRejectsLengths ==
    /\ (/\ lres.tag = "aggregate_args"
        /\ ~(lres.lens[1] = lres.lens[2] /\ lres.lens[2] = lres.lens[3] /\ lres.lens[1] >= 1))
         => lres.out = None
    /\ (lres.tag = "verify_args" /\ (lres.lens[1] # lres.lens[2] \/ lres.lens[1] = 0))
         => lres.out = Ret(FALSE)

\* aggregate has returned None for two identifiers, two keys and one ticket
C11_Witness ==
    /\ lres.tag = "aggregate_args"
    /\ lres.lens = <<2, 2, 1>>
    /\ lres.out = None

\* C12: the vector commitment's aggregate returns None whenever values,
\* commitments and openings do not have one non-zero length, and its verify
\* returns false whenever values and commitments are not equally many or are
\* empty; neither panics.
C12_VcRejectsLengths ==
    /\ (/\ vres.tag = "aggregate_args"
        /\ ~(vres.lens[1] = vres.lens[2] /\ vres.lens[2] = vres.lens[3] /\ vres.lens[1] >= 1))
         => vres.out = None
    /\ (vres.tag = "verify_args" /\ (vres.lens[1] # vres.lens[2] \/ vres.lens[1] = 0))
         => vres.out = Ret(FALSE)

----------------------------------------------------------------------------
(* Properties of the preprocessed secret state *)

\* the secret key without its precomputed openings
WithoutPrecomputed(sk) ==
    [v |-> sk.v, state |-> [evals |-> sk.state.evals, precomputed_v |-> None]]

C19_SetupRejectsIdentity ==
    vres.tag = "setup"
      => /\ (vres.rng.g1 = 0 \/ vres.rng.g2 = 0 \/ vres.rng.h = 0) => vres.out = None
         /\ vres.out # None
              => /\ At(vres.out.val.u, 0) # 0
                 /\ vres.out.val.g2 # 0
                 /\ At(vres.out.val.hat_u, 0) # 0

\* the point z0 that the commit call in vres derives from its KZG commitment
CommitZ0 ==
    LET dsize == ck.val.domain.size
        rng == RngStream(vres.seed, 2 * dsize)
        evals == vres.m \o [j \in 1..(2 * dsize - Len(vres.m)) |-> rng[j]]
    IN  get_z0(plain_kzg_com(ck.val, evals))

InDomain(domain, z) == \E j \in 0..(domain.size - 1) : Element(domain, j) = z

\* C20: commit does not return when z0 lies in the evaluation domain, and the z0
\* of every commitment it has returned lies outside the domain.
C20_CommitAbortsInDomain ==
    /\ vres.tag = "commit"
         => /\ InDomain(ck.val.domain, CommitZ0) => vres.out = Panic
            /\ vres.out # Panic => vres.out.val.com.com_kzg = plain_kzg_com(ck.val, vres.out.val.state.evals)
    /\ \A j \in 1..Len(vcs) : ~InDomain(ck.val.domain, get_z0(vcs[j].com.com_kzg))

\* a commit call whose z0 lay in the domain
C20_Witness ==
    /\ vres.tag = "commit"
    /\ InDomain(ck.val.domain, CommitZ0)
    /\ vres.out = Panic

HonestWinners ==
    /\ lres.i < par.val.num_lotteries
    /\ \A n \in 1..Len(lres.who) : EntryOf(n) = ChallengeOf(n).val

\* the two exchanged entries have the same public key and the same challenge
ExchangedAlike ==
    /\ users[lres.who[lres.j]].pk = users[lres.who[lres.j + 1]].pk
    /\ ChallengeOf(lres.j) = ChallengeOf(lres.j + 1)

TicketOfOpen(o) == IF o.tag = "Some" THEN Some([opening |-> o.val]) ELSE o

\* C21: the ticket that get_ticket returns is open(ck, sk.state, i), whatever
\* the lottery seed, the pid, the public key and the result of participate: the
\* tickets of the running lottery equal the opening, and so does a call with any
\* other seed, pid and public key.
C21_TicketIsOpening ==
    lres.tag = "lottery"
      => \A n \in 1..Len(lres.tickets) :
            LET sk == users[lres.who[n]].sk IN
            /\ lres.tickets[n] = TicketOfOpen(VcKZG_open(par.val.ck, sk.state, lres.i))
            /\ \A ls \in LotterySeeds, pid \in 0..MaxPid, u \in 1..Len(users) :
                  Jack_get_ticket(par.val, lres.i, ls, pid, sk, users[u].pk) = lres.tickets[n]

\* two parties, one for which participate returned true and one for which it
\* returned false, both hold a ticket
C21_Witness ==
    /\ lres.tag = "lottery"
    /\ Len(lres.tickets) = 2
    /\ lres.wins[1] = Ret(TRUE) /\ lres.wins[2] = Ret(FALSE)
    /\ lres.pids[1] # lres.pids[2]
    /\ lres.tickets[1].tag = "Some" /\ lres.tickets[2].tag = "Some"

\* C22: for a lottery i < T with one party whose entry sk.v[i] differs from its
\* challenge, verify on ([pid], [pk]) rejects the ticket that get_ticket returned.
C22_LosingTicketRejected ==
    (/\ lres.tag = "lottery"
     /\ lres.i < par.val.num_lotteries
     /\ Len(lres.who) = 1
     /\ EntryOf(1) # ChallengeOf(1).val
     /\ lres.ok # Unset
     /\ lres.agg = lres.tickets[1])
      => lres.ok = Ret(FALSE)

\* verify has been called on the ticket of a single party that did not win
C22_Witness ==
    /\ lres.tag = "lottery"
    /\ lres.i < par.val.num_lotteries
    /\ Len(lres.who) = 1
    /\ EntryOf(1) # ChallengeOf(1).val
    /\ lres.ok = Ret(FALSE)
    /\ lres.agg = lres.tickets[1]

\* C23: the integer that get_challenge hands to the field is below k = 2^log_k,
\* and it is the challenge wherever the field holds it; the challenge is 0 for
\* k = 1; the challenges of a running lottery are below the k of its parameters.
C23_ChallengeBelowK ==
    /\ lres.tag = "challenge"
         => /\ lres.bits >= 0 /\ lres.bits < 2 ^ lres.log_k
            /\ lres.log_k < MODULUS_BIT_SIZE => lres.out = Ret(lres.bits)
            /\ lres.log_k = 0 => lres.out = Ret(0)
    /\ lres.tag = "lottery"
         => \A n \in 1..Len(lres.who) :
               /\ ChallengeOf(n).tag = "Ret"
               /\ ChallengeOf(n).val < par.val.k

\* a challenge drawn from one full byte of the digest and a masked partial byte
C23_Witness ==
    /\ lres.tag = "challenge"
    /\ lres.log_k = 9
    /\ lres.bits >= 256

C25_LagrangeConsistent ==
    vres.tag = "par_well_formed"
      => /\ vres.lhs = vres.rhs
         /\ vres.hat_lhs = vres.hat_rhs

\* a polynomial of full degree N - 1 that is not constant on the domain, under
\* a key whose commitments of it are not the identity
C25_Witness ==
    /\ vres.tag = "par_well_formed"
    /\ vres.coeffs[Len(vres.coeffs)] # 0
    /\ \E j \in 1..Len(vres.evals) : vres.evals[j] # vres.evals[1]
    /\ vres.lhs # 0
    /\ vres.hat_lhs # 0
    /\ vres.lhs = vres.rhs

\* C26: for every key, every position i below message_length and every
\* commitment, value and opening, plain_kzg_verify_inside at i returns what
\* plain_kzg_verify returns at the i-th domain element.
C26_InsideIsVerifyAtElement ==
    vres.tag = "plain_verify" => vres.inside = vres.at_element

\* an honest opening at a position other than 0 that both checks accept
C26_Witness ==
    /\ vres.tag = "plain_verify"
    /\ vres.i > 0
    /\ vres.honest
    /\ vres.inside
    /\ vres.at_element

\* C27: for every position i of the domain, witness_evals_inside appends to the
\* buffer exactly the N domain evaluations of the quotient of f(X) - f(x_i) by
\* X - x_i obtained by long division, the one at j = i included, and leaves the
\* entries the buffer already held unchanged.
C27_WitnessEvalsInside ==
    vres.tag = "witness_evals_inside"
      => /\ vres.remainder = 0
         /\ vres.witn_evals = vres.buf \o vres.witn_evals_expected

\* a polynomial of full degree, a buffer that is not empty, and a quotient
\* that does not vanish at x_i
C27_Witness ==
    /\ vres.tag = "witness_evals_inside"
    /\ vres.f[Len(vres.f)] # 0
    /\ vres.buf # <<>>
    /\ vres.i > 0
    /\ At(vres.witn_evals_expected, vres.i) # 0
    /\ Len(vres.witn_evals) = Len(vres.buf) + MaxDomainSize

\* C28: for every z outside the domain, evaluate_outside on the evaluations of
\* f and inv_diffs(D, z) returns f(z), and witness_evals_outside with fz = f(z)
\* appends to the buffer the N domain evaluations of the quotient of
\* f(X) - f(z) by X - z obtained by long division.
C28_OutsideEvaluation ==
    vres.tag = "witness_evals_outside"
      => /\ vres.obtained = vres.expected
         /\ vres.remainder = 0
         /\ vres.witn_evals = vres.buf \o vres.witn_evals_expected

\* a polynomial of full degree with f(z) # 0, a buffer that is not empty, and
\* a quotient that is not zero on the whole domain
C28_Witness ==
    /\ vres.tag = "witness_evals_outside"
    /\ vres.f[Len(vres.f)] # 0
    /\ vres.buf # <<>>
    /\ vres.expected # 0
    /\ vres.obtained = vres.expected
    /\ \E j \in 1..Len(vres.witn_evals_expected) : vres.witn_evals_expected[j] # 0

\* C30: for every position i >= message_length and any non-empty lists of
\* values and commitments of equal length, verify returns false and does not
\* panic.
C30_VerifyRejectsOutOfRange ==
    (/\ vres.tag = "verify_at"
     /\ vres.i >= ck.val.message_length
     /\ Len(vres.mis) >= 1
     /\ Len(vres.mis) = Len(vres.coms))
      => /\ ~vres.panicked
         /\ vres.out = Ret(FALSE)

\* C29: once setup has returned them the parameters, the commitment key among
\* them, never change; no call removes a user or changes a public key, the
\* outcomes sk.v or the evaluations sk.state.evals; and sk.state.precomputed_v
\* changes only in a call of fk_preprocess for that user.
C29_Frame ==
    [][/\ par # None => par' = par
       /\ Len(users') >= Len(users)
       /\ \A u \in 1..Len(users) :
            /\ users'[u].pk = users[u].pk
            /\ users'[u].sk.v = users[u].sk.v
            /\ users'[u].sk.state.evals = users[u].sk.state.evals
            /\ users'[u].sk.state.precomputed_v # users[u].sk.state.precomputed_v
                 => /\ lres'.tag = "fk_preprocess"
                    /\ lres'.u = u]_vars

\* a lottery run to its verification by a user whose state was preprocessed
\* some time after gen returned it
C29_Witness ==
    /\ lres.tag = "lottery"
    /\ lres.ok = Ret(TRUE)
    /\ Len(lres.who) >= 1
    /\ users[lres.who[1]].sk.state.precomputed_v # None
    /\ \E u \in 1..Len(users) : users[u].sk.state.precomputed_v = None

====
